---- MODULE Spec2Model ----
(***************************************************************************)
(* Model of MCP-server-backend/chatbot_server.py: the two lookup tools     *)
(* (getWeather, getNews), the tool registry and the /chat orchestrator.    *)
(* One /chat request is followed from its receipt to its response; every   *)
(* awaited network call is a step of its own, the upstream's reply being   *)
(* chosen nondeterministically from the shapes the code distinguishes.     *)
(* JSON objects are records: a key is present iff it is in the DOMAIN.     *)
(***************************************************************************)
EXTENDS Integers, Sequences, FiniteSets, TLC

VARIABLES
    pc,               \* position of the handler: idle, planning, geocode,
                      \* weather, news, followup, done
    req,              \* ChatRequest of the request in progress
    result,           \* chat(): result (JSON of the planning call's reply)
    follow_up_result, \* chat(): follow_up_result
    tool_result,      \* chat(): tool_result
    geo_data,         \* getWeather(): geo_data
    weather_data,     \* getWeather(): weather_data
    data,             \* getNews(): data
    response,         \* value returned by chat()
    raised,           \* TRUE iff an exception left chat()
    chat_calls,       \* payloads POSTed to the chat-completion endpoint
    tool_execs,       \* tool invocations made through tool_functions
    geo_calls,        \* query parameters of the geocoding GETs
    weather_calls,    \* query parameters of the weather-provider GETs
    news_calls,       \* query parameters of the news-provider GETs
    failed            \* upstream calls of this request that failed

vars == <<pc, req, result, follow_up_result, tool_result, geo_data,
          weather_data, data, response, raised, chat_calls, tool_execs,
          geo_calls, weather_calls, news_calls, failed>>

(***************************************************************************)
(* Bounds of the model.                                                    *)
(***************************************************************************)
\* most tool calls the model requests in one turn
MaxToolCalls == 2
\* most articles in one news-provider response
MaxResults == 4

(***************************************************************************)
(* Values.                                                                 *)
(***************************************************************************)
\* Python's None (JSON null)
None == "None"
\* a local that has not been assigned yet
Unset == [unset |-> TRUE]

Min(a, b) == IF a < b THEN a ELSE b

\* exceptions: type and str(e)
Exc(type, msg) == [type |-> type, msg |-> msg]
\* str(KeyError(k))
KeyErrorOf(k) == Exc("KeyError", "'" \o k \o "'")
IndexErrorOf == Exc("IndexError", "list index out of range")
\* raised by client.get / client.post
ConnectError == Exc("ConnectError", "All connection attempts failed")
\* raised by resp.json() on a body that is not JSON
BodyDecodeError == Exc("JSONDecodeError", "Expecting value: line 1 column 1 (char 0)")

\* what an awaited HTTP call followed by .json() yields
Threw(e) == [ok |-> FALSE, exc |-> e]
Got(v) == [ok |-> TRUE, json |-> v]
HttpFailures == {Threw(ConnectError), Threw(BodyDecodeError)}

NEWSDATA_KEY == "newsdata-key"
OPENROUTER_KEY == "openrouter-key"

Messages == {"weather in Paris?", "hello"}

RECURSIVE SeqsUpTo(_, _)
\* all sequences over S of length at most n
SeqsUpTo(S, n) ==
    IF n = 0 THEN {<<>>}
    ELSE LET P == SeqsUpTo(S, n - 1)
         IN  P \cup {Append(s, x) : s \in {t \in P : Len(t) = n - 1}, x \in S}

\* d.get(k, default)
Get(d, k, default) == IF k \in DOMAIN d THEN d[k] ELSE default

(***************************************************************************)
(* json.loads on the argument strings the model may send, json.dumps on    *)
(* the tool results, float() on the geocoder's coordinate strings.         *)
(***************************************************************************)
ArgStrings ==
    { "{\"city\": \"Paris\"}", "{\"city\": \"Atlantis\"}", "{\"topic\": \"ai\"}",
      "{\"city\": \"Paris\", \"units\": \"metric\"}", "{\"city\": " }

json_loads(s) ==
    CASE s = "{\"city\": \"Paris\"}" -> Got([city |-> "Paris"])
      [] s = "{\"city\": \"Atlantis\"}" -> Got([city |-> "Atlantis"])
      [] s = "{\"topic\": \"ai\"}" -> Got([topic |-> "ai"])
      [] s = "{\"city\": \"Paris\", \"units\": \"metric\"}" ->
             Got([city |-> "Paris", units |-> "metric"])
      [] OTHER -> Threw(Exc("JSONDecodeError",
                            "Expecting value: line 1 column 10 (char 9)"))

\* float(): a decimal string to a number, kept in hundredths
float(s) ==
    CASE s = "48.85" -> 4885
      [] s = "2.35" -> 235

\* repr of a float kept in hundredths
FloatRepr(h) ==
    ToString(h \div 100) \o "." \o
    (IF h % 100 < 10 THEN "0" ELSE "") \o ToString(h % 100)

DumpStr(s) == IF s = None THEN "null" ELSE "\"" \o s \o "\""

RECURSIVE DumpHeadlines(_)
DumpHeadlines(hs) ==
    IF hs = <<>> THEN ""
    ELSE "{\"title\": " \o DumpStr(hs[1].title) \o ", \"link\": "
         \o DumpStr(hs[1].link) \o "}"
         \o (IF Len(hs) > 1 THEN ", " ELSE "") \o DumpHeadlines(Tail(hs))

json_dumps(v) ==
    IF "error" \in DOMAIN v THEN "{\"error\": " \o DumpStr(v.error) \o "}"
    ELSE IF "headlines" \in DOMAIN v
    THEN "{\"topic\": " \o DumpStr(v.topic) \o ", \"headlines\": ["
         \o DumpHeadlines(v.headlines) \o "]}"
    ELSE "{\"city\": " \o DumpStr(v.city) \o ", \"location\": "
         \o DumpStr(v.location) \o ", \"temperatureUnit\": "
         \o DumpStr(v.temperatureUnit) \o ", \"weather\": "
         \o DumpStr(v.weather) \o ", \"coordinates\": {\"lat\": "
         \o FloatRepr(v.coordinates.lat) \o ", \"lon\": "
         \o FloatRepr(v.coordinates.lon) \o "}}"

(***************************************************************************)
(* getWeather                                                              *)
(***************************************************************************)
geocode_params(city) == [q |-> city, format |-> "json", limit |-> 1]

weather_params(lat, lon) ==
    [latitude |-> lat, longitude |-> lon,
     current |-> "temperature_2m,relative_humidity_2m,weather_code,wind_speed_10m,wind_direction_10m",
     daily |-> "temperature_2m_max,temperature_2m_min,weather_code,precipitation_sum",
     forecast_days |-> 1, timezone |-> "auto"]

\* WMO codes used by Open-Meteo
weather_codes ==
    0 :> "Clear sky" @@ 1 :> "Mainly clear" @@ 2 :> "Partly cloudy" @@ 3 :> "Overcast"
    @@ 45 :> "Fog" @@ 48 :> "Depositing rime fog" @@ 51 :> "Light drizzle"
    @@ 53 :> "Moderate drizzle" @@ 55 :> "Dense drizzle"
    @@ 56 :> "Light freezing drizzle" @@ 57 :> "Dense freezing drizzle"
    @@ 61 :> "Slight rain" @@ 63 :> "Moderate rain" @@ 65 :> "Heavy rain"
    @@ 66 :> "Light freezing rain" @@ 67 :> "Heavy freezing rain"
    @@ 71 :> "Slight snow" @@ 73 :> "Moderate snow" @@ 75 :> "Heavy snow"
    @@ 77 :> "Snow grains" @@ 80 :> "Slight rain showers"
    @@ 81 :> "Moderate rain showers" @@ 82 :> "Violent rain showers"
    @@ 85 :> "Slight snow showers" @@ 86 :> "Heavy snow showers"
    @@ 95 :> "Thunderstorm" @@ 96 :> "Thunderstorm with slight hail"
    @@ 99 :> "Thunderstorm with heavy hail"

\* a faulty variant of weather_desc: a code outside the table reads as code 0
weather_desc_default_clear(current) ==
    LET code == Get(current, "weather_code", 0)
    IN  IF code \in DOMAIN weather_codes THEN weather_codes[code] ELSE weather_codes[0]

\* weather_codes.get(current.get("weather_code", 0), "Unknown")
weather_desc(current) ==
    LET code == Get(current, "weather_code", 0)
    IN  IF code \in DOMAIN weather_codes THEN weather_codes[code] ELSE "Unknown"

\* a faulty variant of city_not_found: the message names no city
city_not_found_anonymous(city) == [error |-> "City not found."]

city_not_found(city) == [error |-> "City '" \o city \o "' not found."]

\* the except clause of getWeather
failed_to_fetch_weather(e) == [error |-> "Failed to fetch weather: " \o e.msg]

\* What getWeather does with the geocoder's reply r: it returns a ToolResult
\* or goes on to the weather provider with the first match's coordinates.
getWeather_geocoded(city, r) ==
    IF ~r.ok THEN [kind |-> "return", value |-> failed_to_fetch_weather(r.exc)]
    ELSE IF Len(r.json) = 0 THEN [kind |-> "return", value |-> city_not_found(city)]
    ELSE IF "lat" \notin DOMAIN r.json[1]
    THEN [kind |-> "return", value |-> failed_to_fetch_weather(KeyErrorOf("lat"))]
    ELSE IF "lon" \notin DOMAIN r.json[1]
    THEN [kind |-> "return", value |-> failed_to_fetch_weather(KeyErrorOf("lon"))]
    ELSE [kind |-> "fetch",
          params |-> weather_params(float(r.json[1].lat), float(r.json[1].lon))]

\* What getWeather returns once the weather provider has replied with r.
\* The numeric readings (temperature, humidity, wind, forecast) are copied
\* from the reply with defaults and are left out of the result here.
getWeather_fetched(city, geo, r) ==
    IF ~r.ok THEN failed_to_fetch_weather(r.exc)
    ELSE IF "current" \notin DOMAIN r.json
    THEN [error |-> "Weather data not available for this location"]
    ELSE IF "daily" \notin DOMAIN r.json
    THEN failed_to_fetch_weather(KeyErrorOf("daily"))
    ELSE [city |-> city,
          location |-> Get(geo[1], "display_name", city),
          temperatureUnit |-> "\\u00c2\\u00b0C",
          weather |-> weather_desc(r.json.current),
          coordinates |-> [lat |-> float(geo[1].lat), lon |-> float(geo[1].lon)]]

(***************************************************************************)
(* getNews                                                                 *)
(***************************************************************************)
news_params(topic) ==
    [apikey |-> NEWSDATA_KEY, q |-> topic, language |-> "en", country |-> "us",
     page |-> 0]

\* s[:n]
Slice(s, n) == SubSeq(s, 1, Min(Len(s), n))

\* truth value of a.get("title")
TitleTruthy(a) == Get(a, "title", None) \notin {None, ""}

RECURSIVE Headlines(_)
\* [{"title": ..., "link": ...} for a in articles if a.get("title")]
Headlines(articles) ==
    IF articles = <<>> THEN <<>>
    ELSE (IF TitleTruthy(articles[1])
          THEN <<[title |-> Get(articles[1], "title", None),
                  link |-> Get(articles[1], "link", None)]>>
          ELSE <<>>) \o Headlines(Tail(articles))

\* a faulty variant of getNews_result: the filter on the title is dropped and the
\* slice is one too long
getNews_result_unfiltered(topic, r) ==
    IF ~r.ok THEN [error |-> "Failed to fetch news: " \o r.exc.msg]
    ELSE LET articles == Slice(Get(r.json, "results", <<>>), 4)
         IN  [topic |-> topic,
              headlines |-> [i \in 1..Len(articles) |->
                               [title |-> Get(articles[i], "title", None),
                                link |-> Get(articles[i], "link", None)]]]

\* What getNews returns once the news provider has replied with r.
getNews_result(topic, r) ==
    IF ~r.ok THEN [error |-> "Failed to fetch news: " \o r.exc.msg]
    ELSE LET articles == Slice(Get(r.json, "results", <<>>), 3)
         IN  [topic |-> topic, headlines |-> Headlines(articles)]

\* the registry: tool name -> the keyword parameters of its function
tool_functions == [getWeather |-> {"city"}, getNews |-> {"topic"}]

(***************************************************************************)
(* The replies of the upstream services.                                   *)
(***************************************************************************)
GeoMatches ==
    { [lat |-> "48.85", lon |-> "2.35", display_name |-> "Paris, Ile-de-France, France"],
      [lat |-> "48.85", lon |-> "2.35"],
      [lon |-> "2.35", display_name |-> "Paris, Ile-de-France, France"] }

GeoReplies == HttpFailures \cup {Got(<<>>)} \cup {Got(<<m>>) : m \in GeoMatches}

\* weather codes the provider may send: in the table and outside it
WeatherCodeInputs == {0, 3, 45, 99, 4, 100, -1}

CurrentBlocks ==
    {[weather_code |-> k, is_day |-> TRUE] : k \in WeatherCodeInputs}
    \cup {[is_day |-> TRUE]}

DailyBlock == [time |-> <<"2025-01-01">>]

WeatherReplies ==
    HttpFailures
    \cup {Got([reason |-> "Latitude must be in range of -90 to 90"])}
    \cup {Got([current |-> c]) : c \in CurrentBlocks}
    \cup {Got([current |-> c, daily |-> DailyBlock]) : c \in CurrentBlocks}

Articles ==
    { [title |-> "Chips get faster", link |-> "https://news.example/1"],
      [title |-> "Robots learn to cook"],
      [title |-> "", link |-> "https://news.example/3"],
      [link |-> "https://news.example/4"] }

NewsReplies ==
    HttpFailures
    \cup {Got([status |-> "error"])}
    \cup {Got([status |-> "success", results |-> s]) : s \in SeqsUpTo(Articles, MaxResults)}

\* the tool call the orchestrator looks at: any name, id and arguments
FirstToolCalls ==
    {[id |-> "call_1", type |-> "function", function |-> [name |-> n, arguments |-> a]] :
        n \in {"getWeather", "getNews", "getStock"}, a \in ArgStrings}
    \cup {[type |-> "function", function |-> [name |-> n, arguments |-> a]] :
        n \in {"getWeather", "getNews"}, a \in ArgStrings}
    \cup {[id |-> "call_1", type |-> "function", function |-> [arguments |-> a]] :
        a \in ArgStrings}

\* further tool calls of the same turn
ExtraToolCalls ==
    { [id |-> "call_2", type |-> "function",
       function |-> [name |-> "getNews", arguments |-> "{\"topic\": \"ai\"}"]],
      [id |-> "call_3", type |-> "function",
       function |-> [name |-> "getWeather", arguments |-> "{\"city\": \"Atlantis\"}"]] }

ToolCallSeqs ==
    {<<f>> \o t : f \in FirstToolCalls, t \in SeqsUpTo(ExtraToolCalls, MaxToolCalls - 1)}

PlanMessages ==
    {[role |-> "assistant", content |-> c] : c \in {"Hi there!", None}}
    \cup {[role |-> "assistant", content |-> "Hi there!", tool_calls |-> <<>>]}
    \cup {[role |-> "assistant"]}
    \cup {[role |-> "assistant", content |-> None, tool_calls |-> t] : t \in ToolCallSeqs}

PlanningReplies ==
    HttpFailures
    \cup {Got([error |-> "rate limited"]), Got([choices |-> <<>>]),
          Got([choices |-> <<[finish_reason |-> "stop"]>>])}
    \cup {Got([choices |-> <<[message |-> m]>>]) : m \in PlanMessages}

FollowUpReplies ==
    HttpFailures
    \cup {Got([error |-> "rate limited"]), Got([choices |-> <<>>]),
          Got([choices |-> <<[finish_reason |-> "stop"]>>]),
          Got([choices |-> <<[message |-> [role |-> "assistant"]]>>])}
    \cup {Got([choices |-> <<[message |-> [role |-> "assistant", content |-> c]]>>]) :
            c \in {"It is sunny in Paris.", None}}

(***************************************************************************)
(* chat                                                                    *)
(***************************************************************************)
tools ==
    << [type |-> "function",
        function |-> [name |-> "getWeather",
                      description |-> "Get current weather for a city",
                      parameters |-> [type |-> "object",
                                      properties |-> [city |-> [type |-> "string",
                                                                description |-> "City name"]],
                                      required |-> <<"city">>]]],
       [type |-> "function",
        function |-> [name |-> "getNews",
                      description |-> "Get latest news for a topic",
                      parameters |-> [type |-> "object",
                                      properties |-> [topic |-> [type |-> "string",
                                                                 description |-> "News topic"]],
                                      required |-> <<"topic">>]]] >>

headers ==
    [Authorization |-> "Bearer " \o OPENROUTER_KEY, ContentType |-> "application/json"]

payload(r) ==
    [model |-> "openai/gpt-4o-mini",
     messages |-> <<[role |-> "user", content |-> r.message]>>,
     tools |-> tools, tool_choice |-> "auto"]

\* a faulty variant of follow_up_payload: the tool message is keyed to the last
\* requested tool call and the manifest is sent again
follow_up_payload_last_id(r, message, tool_call, tr) ==
    [model |-> "openai/gpt-4o-mini",
     messages |-> << [role |-> "user", content |-> r.message],
                     [role |-> "assistant", content |-> "", tool_calls |-> message.tool_calls],
                     [role |-> "tool",
                      tool_call_id |-> message.tool_calls[Len(message.tool_calls)].id,
                      content |-> json_dumps(tr)] >>]

follow_up_payload(r, message, tool_call, tr) ==
    [model |-> "openai/gpt-4o-mini",
     messages |-> << [role |-> "user", content |-> r.message],
                     [role |-> "assistant", content |-> "", tool_calls |-> message.tool_calls],
                     [role |-> "tool", tool_call_id |-> tool_call.id,
                      content |-> json_dumps(tr)] >>]

\* "tool_calls" in message and message["tool_calls"]
has_tool_calls(message) ==
    "tool_calls" \in DOMAIN message /\ Len(message.tool_calls) > 0

\* a faulty variant of first_tool_call: the last requested call is taken
last_tool_call(message) == message.tool_calls[Len(message.tool_calls)]

\* message["tool_calls"][0]
first_tool_call(message) == message.tool_calls[1]

\* a faulty variant of tool_not_found: the name is left out
tool_not_found_unnamed(tool_name) == [error |-> "Tool not found"]

tool_not_found(tool_name) == [error |-> "Tool '" \o tool_name \o "' not found"]

\* a faulty variant of Caught: only transport errors are caught
CaughtTransportOnly(e) == e.type \in {"ConnectError"}

\* except Exception: every exception the handler can meet derives from it
Caught(e) ==
    e.type \in {"ConnectError", "JSONDecodeError", "KeyError", "IndexError", "TypeError"}

\* traceback.format_exc()
format_exc(e) ==
    "Traceback (most recent call last):\n  ...\n" \o e.type \o ": " \o e.msg \o "\n"

\* a faulty variant of chat_processing_failed: the error body also carries an answer
chat_processing_failed_with_answer(e) ==
    [answer |-> "", error |-> "Chat processing failed: " \o e.msg,
     details |-> format_exc(e)]

\* the except clause of chat
chat_processing_failed(e) ==
    [error |-> "Chat processing failed: " \o e.msg, details |-> format_exc(e)]

\* a faulty variant of direct_answer: a null content is turned into an empty string
direct_answer_or_empty(message) ==
    [answer |-> IF message.content = None THEN "" ELSE message.content]

\* return {"answer": message["content"]}
direct_answer(message) == [answer |-> message.content]

\* tool_functions[tool_name](**args): the call binds the keywords to the
\* function's parameters or raises TypeError
bind_error(tool_name, args) ==
    tool_name \o "() got an unexpected keyword argument or misses a required one"

Binds(tool_name, args) == DOMAIN args = tool_functions[tool_name]

\* What chat does with the planning call's reply, up to its next await:
\* it raises, returns, or dispatches a tool.
plan(r) ==
    IF ~r.ok THEN [kind |-> "raise", exc |-> r.exc]
    ELSE IF ~("choices" \in DOMAIN r.json /\ Len(r.json.choices) > 0)
    THEN [kind |-> "return", value |-> [error |-> "No response from OpenRouter"]]
    ELSE IF "message" \notin DOMAIN r.json.choices[1]
    THEN [kind |-> "raise", exc |-> KeyErrorOf("message")]
    ELSE LET message == r.json.choices[1].message IN
    IF ~has_tool_calls(message)
    THEN IF "content" \in DOMAIN message
         THEN [kind |-> "return", value |-> direct_answer(message)]
         ELSE [kind |-> "raise", exc |-> KeyErrorOf("content")]
    ELSE LET tool_call == first_tool_call(message) IN
    IF "name" \notin DOMAIN tool_call.function
    THEN [kind |-> "raise", exc |-> KeyErrorOf("name")]
    ELSE LET tool_name == tool_call.function.name
             args == json_loads(tool_call.function.arguments) IN
    IF ~args.ok THEN [kind |-> "raise", exc |-> args.exc]
    ELSE IF tool_name \notin DOMAIN tool_functions
    THEN [kind |-> "return", value |-> tool_not_found(tool_name)]
    ELSE IF ~Binds(tool_name, args.json)
    THEN [kind |-> "raise", exc |-> Exc("TypeError", bind_error(tool_name, args.json))]
    ELSE [kind |-> "dispatch", tool_name |-> tool_name, args |-> args.json]

\* a faulty variant of final_answer: the tool result is left out of the response
final_answer_without_tool_result(r, tr) ==
    IF ~r.ok THEN [kind |-> "raise", exc |-> r.exc]
    ELSE IF "choices" \notin DOMAIN r.json
    THEN [kind |-> "raise", exc |-> KeyErrorOf("choices")]
    ELSE IF Len(r.json.choices) = 0 THEN [kind |-> "raise", exc |-> IndexErrorOf]
    ELSE IF "message" \notin DOMAIN r.json.choices[1]
    THEN [kind |-> "raise", exc |-> KeyErrorOf("message")]
    ELSE IF "content" \notin DOMAIN r.json.choices[1].message
    THEN [kind |-> "raise", exc |-> KeyErrorOf("content")]
    ELSE [kind |-> "return", value |-> [answer |-> r.json.choices[1].message.content]]

\* What chat does with the follow-up call's reply.
final_answer(r, tr) ==
    IF ~r.ok THEN [kind |-> "raise", exc |-> r.exc]
    ELSE IF "choices" \notin DOMAIN r.json
    THEN [kind |-> "raise", exc |-> KeyErrorOf("choices")]
    ELSE IF Len(r.json.choices) = 0 THEN [kind |-> "raise", exc |-> IndexErrorOf]
    ELSE IF "message" \notin DOMAIN r.json.choices[1]
    THEN [kind |-> "raise", exc |-> KeyErrorOf("message")]
    ELSE IF "content" \notin DOMAIN r.json.choices[1].message
    THEN [kind |-> "raise", exc |-> KeyErrorOf("content")]
    ELSE [kind |-> "return",
          value |-> [answer |-> r.json.choices[1].message.content, tool_result |-> tr]]

(***************************************************************************)
(* The state machine.                                                      *)
(***************************************************************************)
Init ==
    /\ pc = "idle"
    /\ req = Unset
    /\ result = Unset
    /\ follow_up_result = Unset
    /\ tool_result = Unset
    /\ geo_data = Unset
    /\ weather_data = Unset
    /\ data = Unset
    /\ response = Unset
    /\ raised = FALSE
    /\ chat_calls = <<>>
    /\ tool_execs = <<>>
    /\ geo_calls = <<>>
    /\ weather_calls = <<>>
    /\ news_calls = <<>>
    /\ failed = {}

\* chat() ends: it returns out.value, or out.exc is raised in its try block
End(out) ==
    /\ pc' = "done"
    /\ IF out.kind = "return"
       THEN response' = out.value /\ raised' = FALSE
       ELSE IF Caught(out.exc)
       THEN response' = chat_processing_failed(out.exc) /\ raised' = FALSE
       ELSE response' = Unset /\ raised' = TRUE

\* the message and the tool call of the request in progress
Message == result.choices[1].message
ToolCall == first_tool_call(Message)

\* the awaited tool has returned tr: chat builds the follow-up payload and
\* POSTs it
ToolReturned(tr) ==
    /\ tool_result' = tr
    /\ IF "id" \notin DOMAIN ToolCall
       THEN /\ End([kind |-> "raise", exc |-> KeyErrorOf("id")])
            /\ UNCHANGED chat_calls
       ELSE /\ chat_calls' = Append(chat_calls, follow_up_payload(req, Message, ToolCall, tr))
            /\ pc' = "followup"
            /\ UNCHANGED <<response, raised>>

\* POST /chat arrives: the planning call is sent
ReceiveChat(m) ==
    /\ pc = "idle"
    /\ req' = [message |-> m]
    /\ chat_calls' = <<payload([message |-> m])>>
    /\ pc' = "planning"
    /\ UNCHANGED <<result, follow_up_result, tool_result, geo_data, weather_data,
                   data, response, raised, tool_execs, geo_calls, weather_calls,
                   news_calls, failed>>

\* the planning call's reply r arrives
PlanningReply(r) ==
    /\ pc = "planning"
    /\ LET out == plan(r) IN
       /\ result' = IF r.ok THEN r.json ELSE result
       /\ failed' = IF r.ok THEN failed ELSE failed \cup {"planning"}
       /\ IF out.kind = "dispatch"
          THEN /\ tool_execs' = Append(tool_execs, [name |-> out.tool_name, args |-> out.args])
               /\ IF out.tool_name = "getWeather"
                  THEN /\ geo_calls' = Append(geo_calls, geocode_params(out.args.city))
                       /\ pc' = "geocode"
                       /\ UNCHANGED news_calls
                  ELSE /\ news_calls' = Append(news_calls, news_params(out.args.topic))
                       /\ pc' = "news"
                       /\ UNCHANGED geo_calls
               /\ UNCHANGED <<response, raised>>
          ELSE /\ End(out)
               /\ UNCHANGED <<tool_execs, geo_calls, news_calls>>
    /\ UNCHANGED <<req, follow_up_result, tool_result, geo_data, weather_data, data,
                   chat_calls, weather_calls>>

\* getWeather: the geocoder's reply r arrives
GeocodeReply(r) ==
    /\ pc = "geocode"
    /\ LET out == getWeather_geocoded(tool_execs[1].args.city, r) IN
       /\ geo_data' = IF r.ok THEN r.json ELSE geo_data
       /\ failed' = IF r.ok THEN failed ELSE failed \cup {"geocoding"}
       /\ IF out.kind = "fetch"
          THEN /\ weather_calls' = Append(weather_calls, out.params)
               /\ pc' = "weather"
               /\ UNCHANGED <<tool_result, chat_calls, response, raised>>
          ELSE /\ ToolReturned(out.value)
               /\ UNCHANGED weather_calls
    /\ UNCHANGED <<req, result, follow_up_result, weather_data, data, tool_execs,
                   geo_calls, news_calls>>

\* getWeather: the weather provider's reply r arrives
WeatherReply(r) ==
    /\ pc = "weather"
    /\ weather_data' = IF r.ok THEN r.json ELSE weather_data
    /\ failed' = IF r.ok THEN failed ELSE failed \cup {"weather"}
    /\ ToolReturned(getWeather_fetched(tool_execs[1].args.city, geo_data, r))
    /\ UNCHANGED <<req, result, follow_up_result, geo_data, data, tool_execs,
                   geo_calls, weather_calls, news_calls>>

\* getNews: the news provider's reply r arrives
NewsReply(r) ==
    /\ pc = "news"
    /\ data' = IF r.ok THEN r.json ELSE data
    /\ failed' = IF r.ok THEN failed ELSE failed \cup {"news"}
    /\ ToolReturned(getNews_result(tool_execs[1].args.topic, r))
    /\ UNCHANGED <<req, result, follow_up_result, geo_data, weather_data,
                   tool_execs, geo_calls, weather_calls, news_calls>>

\* the follow-up call's reply r arrives
FollowUpReply(r) ==
    /\ pc = "followup"
    /\ follow_up_result' = IF r.ok THEN r.json ELSE follow_up_result
    /\ failed' = IF r.ok THEN failed ELSE failed \cup {"followup"}
    /\ End(final_answer(r, tool_result))
    /\ UNCHANGED <<req, result, tool_result, geo_data, weather_data, data,
                   chat_calls, tool_execs, geo_calls, weather_calls, news_calls>>

\* the response has been sent: the handler's locals are gone
Respond ==
    /\ pc = "done"
    /\ pc' = "idle"
    /\ req' = Unset
    /\ result' = Unset
    /\ follow_up_result' = Unset
    /\ tool_result' = Unset
    /\ geo_data' = Unset
    /\ weather_data' = Unset
    /\ data' = Unset
    /\ response' = Unset
    /\ raised' = FALSE
    /\ chat_calls' = <<>>
    /\ tool_execs' = <<>>
    /\ geo_calls' = <<>>
    /\ weather_calls' = <<>>
    /\ news_calls' = <<>>
    /\ failed' = {}

Next ==
    \/ \E m \in Messages : ReceiveChat(m)
    \/ \E r \in PlanningReplies : PlanningReply(r)
    \/ \E r \in GeoReplies : GeocodeReply(r)
    \/ \E r \in WeatherReplies : WeatherReply(r)
    \/ \E r \in NewsReplies : NewsReply(r)
    \/ \E r \in FollowUpReplies : FollowUpReply(r)
    \/ Respond

Spec == Init /\ [][Next]_vars

(***************************************************************************)
(* Properties.                                                             *)
(***************************************************************************)
\* the planning call's reply has a first choice with a message
Planned ==
    /\ pc \notin {"idle", "planning"}
    /\ "planning" \notin failed
    /\ "choices" \in DOMAIN result
    /\ Len(result.choices) > 0
    /\ "message" \in DOMAIN result.choices[1]

\* that message requests at least one tool call
RequestsTool ==
    /\ Planned
    /\ "tool_calls" \in DOMAIN Message
    /\ Message.tool_calls # <<>>

\* the first requested tool call names a tool and its arguments parse
Parseable ==
    /\ RequestsTool
    /\ "name" \in DOMAIN Message.tool_calls[1].function
    /\ json_loads(Message.tool_calls[1].function.arguments).ok

RequestedName == Message.tool_calls[1].function.name
RequestedArgs == json_loads(Message.tool_calls[1].function.arguments).json

\* the follow-up call's reply has a first choice whose message has content
FollowUpAnswered ==
    /\ pc = "done"
    /\ Len(chat_calls) = 2
    /\ "followup" \notin failed
    /\ "choices" \in DOMAIN follow_up_result
    /\ Len(follow_up_result.choices) > 0
    /\ "message" \in DOMAIN follow_up_result.choices[1]
    /\ "content" \in DOMAIN follow_up_result.choices[1].message

\* C1: when the first choice's message carries no tool-call request
\* (tool_calls absent or empty), the request ends after exactly one
\* chat-completion call, no tool and no lookup call has been made, and the
\* response is {answer: <that message's content>}, the content unchanged
\* (a message that has no content key at all has nothing to return).
C1_DirectAnswer ==
    (pc = "done" /\ Planned /\ ~RequestsTool) =>
        /\ Len(chat_calls) = 1
        /\ tool_execs = <<>>
        /\ geo_calls = <<>> /\ weather_calls = <<>> /\ news_calls = <<>>
        /\ "content" \in DOMAIN Message => response = [answer |-> Message.content]

C1_Witness ==
    /\ pc = "done" /\ Planned /\ ~RequestsTool
    /\ "tool_calls" \in DOMAIN Message
    /\ response = [answer |-> "Hi there!"]

\* the first requested call is a well-formed getWeather call: it has an
\* id, and its arguments are exactly a city
WeatherRequested ==
    /\ Parseable
    /\ RequestedName = "getWeather"
    /\ DOMAIN RequestedArgs = {"city"}
    /\ "id" \in DOMAIN Message.tool_calls[1]

\* C2: when the planning reply requests getWeather with a valid city, the
\* request ends after exactly two chat-completion calls and one getWeather
\* execution for that city; the answer is the content of the second call's
\* message and tool_result is the mapping getWeather returned.
C2_WeatherRoundTrip ==
    (pc = "done" /\ WeatherRequested) =>
        /\ Len(chat_calls) = 2
        /\ tool_execs = <<[name |-> "getWeather", args |-> RequestedArgs]>>
        /\ Len(geo_calls) = 1 /\ news_calls = <<>>
        /\ "error" \in DOMAIN tool_result \/ tool_result.city = RequestedArgs.city
        /\ FollowUpAnswered =>
              response = [answer |-> follow_up_result.choices[1].message.content,
                          tool_result |-> tool_result]

C2_Witness ==
    /\ pc = "done" /\ WeatherRequested /\ FollowUpAnswered
    /\ "tool_result" \in DOMAIN response
    /\ "weather" \in DOMAIN response.tool_result
    /\ response.answer = "It is sunny in Paris."
    /\ response.tool_result.weather = "Overcast"
    /\ response.tool_result.location = "Paris, Ile-de-France, France"

\* C3: when the first requested tool call has parseable arguments and a
\* name X that is not in the registry, the response is
\* {error: "Tool 'X' not found"}, no tool is executed and only the planning
\* call has been made.
C3_UnknownTool ==
    (pc = "done" /\ Parseable /\ RequestedName \notin {"getWeather", "getNews"}) =>
        /\ response = [error |-> "Tool '" \o RequestedName \o "' not found"]
        /\ tool_execs = <<>>
        /\ geo_calls = <<>> /\ weather_calls = <<>> /\ news_calls = <<>>
        /\ Len(chat_calls) = 1

C3_Witness ==
    /\ pc = "done" /\ Parseable
    /\ RequestedName = "getStock"
    /\ response = [error |-> "Tool 'getStock' not found"]
    /\ Len(chat_calls) = 1

\* C4: in every state of a request at most two chat-completion calls have
\* been made and at most one tool has been executed; the tool executed is
\* the first requested call, with its arguments, whatever else was
\* requested in the same turn.
C4_NoLoop ==
    /\ Len(chat_calls) <= 2
    /\ Len(tool_execs) <= 1
    /\ Len(geo_calls) + Len(news_calls) <= 1
    /\ Len(weather_calls) <= Len(geo_calls)
    /\ tool_execs # <<>> =>
          /\ Parseable
          /\ tool_execs[1] = [name |-> RequestedName, args |-> RequestedArgs]

C4_Witness ==
    /\ pc = "done" /\ Parseable
    /\ Len(Message.tool_calls) >= 2
    /\ Message.tool_calls[1].function.name = "getWeather"
    /\ Message.tool_calls[2].function.name = "getNews"
    /\ Len(tool_execs) = 1 /\ news_calls = <<>>
    /\ Len(chat_calls) = 2
    /\ "answer" \in DOMAIN response

\* C5 as stated: whenever any upstream call of the request failed, the
\* response has an error key and no answer.
C5_AnyFailureFailsRequest ==
    (pc = "done" /\ failed # {}) =>
        ("error" \in DOMAIN response /\ "answer" \notin DOMAIN response)

LookupFailures(prefix) == {[error |-> prefix \o e.exc.msg] : e \in HttpFailures}

\* C5 amended: no upstream call is made twice; a failed chat-completion
\* call ends the request with an error body that has no answer; a failed
\* geocoding, weather or news call makes the tool return
\* {error: "Failed to fetch ...: <message>"}, which is passed on like any
\* tool result, so that the response carries the follow-up call's answer
\* when that call succeeds.
C5_FailureHandling ==
    /\ Len(chat_calls) <= 2 /\ Len(geo_calls) <= 1
    /\ Len(weather_calls) <= 1 /\ Len(news_calls) <= 1
    /\ "planning" \in failed => (pc = "done" /\ Len(chat_calls) = 1 /\ tool_execs = <<>>)
    /\ "followup" \in failed => (pc = "done" /\ Len(chat_calls) = 2)
    /\ (pc = "done" /\ failed \cap {"planning", "followup"} # {}) =>
          ("error" \in DOMAIN response /\ "answer" \notin DOMAIN response)
    /\ failed \cap {"geocoding", "weather"} # {} =>
          /\ tool_result \in LookupFailures("Failed to fetch weather: ")
          /\ "geocoding" \in failed => weather_calls = <<>>
    /\ "news" \in failed => tool_result \in LookupFailures("Failed to fetch news: ")
    /\ (failed \cap {"geocoding", "weather", "news"} # {} /\ FollowUpAnswered) =>
          /\ "answer" \in DOMAIN response /\ "error" \notin DOMAIN response
          /\ response.tool_result = tool_result

C5_Witness ==
    /\ pc = "done" /\ failed = {"geocoding"}
    /\ "answer" \in DOMAIN response
    /\ response.tool_result = [error |-> "Failed to fetch weather: All connection attempts failed"]

\* the body chat returns for exception e
ErrorBody(e) ==
    [error |-> "Chat processing failed: " \o e.msg,
     details |-> "Traceback (most recent call last):\n  ...\n" \o e.type \o ": "
                 \o e.msg \o "\n"]

\* C6: no exception leaves the handler: every request ends with a body;
\* a failed chat-completion call, a missing key in the upstream JSON and a
\* failed dispatch end it with {error: "Chat processing failed: <message>",
\* details: <trace>}; unparseable arguments of the first tool call end it
\* so with no tool executed and no second chat-completion call.
C6_NeverPropagates ==
    /\ raised = FALSE
    /\ pc = "done" =>
          /\ response # Unset
          /\ "answer" \in DOMAIN response \/ "error" \in DOMAIN response
          /\ failed \cap {"planning", "followup"} # {} =>
                response \in {ErrorBody(e.exc) : e \in HttpFailures}
          /\ ("planning" \notin failed /\ "choices" \in DOMAIN result
                /\ Len(result.choices) > 0 /\ ~Planned) =>
                response = ErrorBody(KeyErrorOf("message"))
          /\ (Planned /\ ~RequestsTool /\ "content" \notin DOMAIN Message) =>
                response = ErrorBody(KeyErrorOf("content"))
          /\ (RequestsTool /\ "name" \in DOMAIN Message.tool_calls[1].function
                /\ ~json_loads(Message.tool_calls[1].function.arguments).ok) =>
                /\ response = ErrorBody(json_loads(Message.tool_calls[1].function.arguments).exc)
                /\ tool_execs = <<>>
                /\ geo_calls = <<>> /\ news_calls = <<>>
                /\ Len(chat_calls) = 1
          /\ (Parseable /\ RequestedName \in {"getWeather", "getNews"}
                /\ DOMAIN RequestedArgs # tool_functions[RequestedName]) =>
                /\ "details" \in DOMAIN response
                /\ tool_execs = <<>> /\ Len(chat_calls) = 1
          /\ (tool_execs # <<>> /\ "id" \notin DOMAIN Message.tool_calls[1]) =>
                response = ErrorBody(KeyErrorOf("id")) /\ Len(chat_calls) = 1
          /\ (Len(chat_calls) = 2 /\ "followup" \notin failed /\ ~FollowUpAnswered) =>
                response \in {ErrorBody(KeyErrorOf("choices")), ErrorBody(IndexErrorOf),
                              ErrorBody(KeyErrorOf("message")),
                              ErrorBody(KeyErrorOf("content"))}

C6_Witness ==
    /\ pc = "done" /\ RequestsTool
    /\ Message.tool_calls[1].function.arguments = "{\"city\": "
    /\ response.error = "Chat processing failed: Expecting value: line 1 column 10 (char 9)"
    /\ tool_execs = <<>> /\ Len(chat_calls) = 1

\* the geocoder has replied to getWeather
GeoReplied == geo_calls # <<>> /\ pc # "geocode" /\ "geocoding" \notin failed

\* C7: when the geocoder returns an empty sequence for the city given to
\* getWeather, getWeather returns {error: "City '<city>' not found."} and
\* the weather provider is not called.
C7_CityNotFound ==
    (GeoReplied /\ Len(geo_data) = 0) =>
        /\ tool_result = [error |-> "City '" \o geo_calls[1].q \o "' not found."]
        /\ geo_calls[1].q = RequestedArgs.city
        /\ weather_calls = <<>>
        /\ weather_data = Unset

C7_Witness ==
    /\ GeoReplied /\ Len(geo_data) = 0
    /\ RequestedArgs.city = "Atlantis"
    /\ tool_result = [error |-> "City 'Atlantis' not found."]
    /\ pc = "done"

\* C8: the follow-up call is made only once the tool has returned; its
\* messages are the user message, an assistant turn with the tool calls of
\* the planning reply, and a tool message whose content is the serialized
\* tool result and whose tool_call_id is the id of the first tool call; it
\* has no tool manifest.
C8_FollowUpPayload ==
    /\ pc \in {"geocode", "weather", "news"} => (Len(chat_calls) = 1 /\ tool_result = Unset)
    /\ Len(chat_calls) = 2 =>
          /\ pc \in {"followup", "done"}
          /\ Len(tool_execs) = 1
          /\ tool_result # Unset
          /\ DOMAIN chat_calls[2] = {"model", "messages"}
          /\ chat_calls[2].messages =
                << [role |-> "user", content |-> req.message],
                   [role |-> "assistant", content |-> "",
                    tool_calls |-> result.choices[1].message.tool_calls],
                   [role |-> "tool",
                    tool_call_id |-> result.choices[1].message.tool_calls[1].id,
                    content |-> json_dumps(tool_result)] >>
          /\ chat_calls[1].messages = <<[role |-> "user", content |-> req.message]>>
          /\ "tools" \in DOMAIN chat_calls[1]

C8_Witness ==
    /\ pc = "followup"
    /\ Len(result.choices[1].message.tool_calls) = 2
    /\ chat_calls[2].messages[3] =
          [role |-> "tool", tool_call_id |-> "call_1",
           content |-> "{\"error\": \"City 'Atlantis' not found.\"}"]

\* getWeather has returned a weather report
Reported ==
    /\ tool_execs # <<>> /\ tool_execs[1].name = "getWeather"
    /\ tool_result # Unset /\ "weather" \in DOMAIN tool_result

\* C9 as stated: the table has 33 codes and a code outside it reads
\* "Unknown".
C9_Table33 ==
    Reported =>
        /\ Cardinality(DOMAIN weather_codes) = 33
        /\ ("weather_code" \in DOMAIN weather_data.current
              /\ weather_data.current.weather_code \notin DOMAIN weather_codes) =>
              tool_result.weather = "Unknown"

\* C9 amended: the table has 28 codes; a code outside it reads "Unknown"
\* and a code in it reads its entry.
C9_UnknownCode ==
    Reported =>
        /\ Cardinality(DOMAIN weather_codes) = 28
        /\ "weather_code" \in DOMAIN weather_data.current =>
              IF weather_data.current.weather_code \in DOMAIN weather_codes
              THEN tool_result.weather = weather_codes[weather_data.current.weather_code]
              ELSE tool_result.weather = "Unknown"

C9_Witness ==
    /\ Reported
    /\ "weather_code" \in DOMAIN weather_data.current
    /\ weather_data.current.weather_code = 4
    /\ tool_result.weather = "Unknown"

RECURSIVE IsSubseq(_, _)
\* s can be had from t by dropping entries
IsSubseq(s, t) ==
    IF s = <<>> THEN TRUE
    ELSE IF t = <<>> THEN FALSE
    ELSE IF s[1] = t[1] THEN IsSubseq(Tail(s), Tail(t))
    ELSE IsSubseq(s, Tail(t))

\* getNews has returned a list of headlines
NewsFetched ==
    /\ tool_execs # <<>> /\ tool_execs[1].name = "getNews"
    /\ tool_result # Unset /\ "headlines" \in DOMAIN tool_result

ProviderResults == IF "results" \in DOMAIN data THEN data.results ELSE <<>>

\* C10: a successful getNews result has at most 3 headlines, each with a
\* non-empty title, and they are {title, link} of entries among the first
\* three results of the provider, in the provider's order.
C10_Headlines ==
    NewsFetched =>
        /\ Len(tool_result.headlines) <= 3
        /\ \A i \in 1..Len(tool_result.headlines) :
              tool_result.headlines[i].title \notin {"", None}
        /\ LET n == IF Len(ProviderResults) < 3 THEN Len(ProviderResults) ELSE 3
               firstThree == [i \in 1..n |->
                                [title |-> IF "title" \in DOMAIN ProviderResults[i]
                                           THEN ProviderResults[i].title ELSE None,
                                 link |-> IF "link" \in DOMAIN ProviderResults[i]
                                          THEN ProviderResults[i].link ELSE None]]
           IN  IsSubseq(tool_result.headlines, firstThree)

C10_Witness ==
    /\ NewsFetched
    /\ Len(ProviderResults) = 4
    /\ "title" \notin DOMAIN ProviderResults[1]
    /\ "title" \in DOMAIN ProviderResults[4]
    /\ ProviderResults[4].title = "Chips get faster"
    /\ tool_result.headlines =
          << [title |-> "Robots learn to cook", link |-> None],
             [title |-> "Chips get faster", link |-> "https://news.example/1"] >>

====
